---- MODULE Spec2Model ----
(***************************************************************************)
(* Birthday Harmonizer: ICSParser.parse (the recovery engine),             *)
(* ICSGenerator.build (the event builder) and the driver that chains them. *)
(* Text is a sequence of one-character strings, a date is a record         *)
(* [year, month, day], an optional property of a calendar component is a   *)
(* sequence of length 0 (absent) or 1 (present).                           *)
(***************************************************************************)
EXTENDS Integers, Sequences, FiniteSets, TLC

\* ------------------------------------------------------------ bounds
\* Largest number of components in the source calendar file.
MaxEvents == 2
\* Largest number of build calls made on one generator instance.
MaxBuilds == 2
\* Largest number of times an output file is used as the next input file.
MaxFeedBacks == 1

\* ------------------------------------------------------------ constants
SENTINEL_YEAR == 1604
DEFAULT_ALARM_HOURS == 9
\* uid[:8] in the fallback name
UidPrefixLen == 8

\* ------------------------------------------------------------ text
Digits == {"0", "1", "2", "3", "4", "5", "6", "7", "8", "9"}

Letters == {"a", "b", "c", "d", "e", "f", "g", "h", "i", "j", "k", "l", "m",
            "n", "o", "p", "q", "r", "s", "t", "u", "v", "w", "x", "y", "z",
            "A", "B", "C", "D", "E", "F", "G", "H", "I", "J", "K", "L", "M",
            "N", "O", "P", "Q", "R", "S", "T", "U", "V", "W", "X", "Y", "Z"}

\* the characters str.strip() removes
Whitespace == {" ", "\t", "\n", "\r"}

\* \w of the regular expression
IsWordChar(c) == c \in Digits \cup Letters \cup {"_"}

DigitVal(c) ==
    CASE c = "0" -> 0 [] c = "1" -> 1 [] c = "2" -> 2 [] c = "3" -> 3
      [] c = "4" -> 4 [] c = "5" -> 5 [] c = "6" -> 6 [] c = "7" -> 7
      [] c = "8" -> 8 [] c = "9" -> 9

DigitChar(d) == <<"0", "1", "2", "3", "4", "5", "6", "7", "8", "9">>[d + 1]

\* int(text) of a run of decimal digits
RECURSIVE ToInt(_)
ToInt(t) ==
    IF t = <<>> THEN 0
    ELSE 10 * ToInt(SubSeq(t, 1, Len(t) - 1)) + DigitVal(t[Len(t)])

\* str(n) of a natural number
RECURSIVE ToStr(_)
ToStr(n) ==
    IF n < 10 THEN <<DigitChar(n)>>
    ELSE ToStr(n \div 10) \o <<DigitChar(n % 10)>>

SetMin(S) == CHOOSE x \in S : \A y \in S : x <= y
SetMax(S) == CHOOSE x \in S : \A y \in S : x >= y

\* str.strip()
Strip(t) ==
    LET keep == {i \in 1..Len(t) : t[i] \notin Whitespace}
    IN  IF keep = {} THEN <<>> ELSE SubSeq(t, SetMin(keep), SetMax(keep))

\* t[:n]
Prefix(t, n) == SubSeq(t, 1, IF Len(t) < n THEN Len(t) ELSE n)

\* event.get(key, default)
Get(prop, default) == IF prop = <<>> THEN default ELSE prop[1]

\* ------------------------------------------------------------ dates
IsLeap(y) == (y % 4 = 0) /\ ((y % 100 # 0) \/ (y % 400 = 0))

DaysInMonth(y, m) ==
    IF m = 2 THEN (IF IsLeap(y) THEN 29 ELSE 28)
    ELSE IF m \in {4, 6, 9, 11} THEN 30 ELSE 31

\* date(y, m, d) raises ValueError unless this holds
ValidDate(y, m, d) ==
    /\ y \in 1..9999
    /\ m \in 1..12
    /\ d \in 1..DaysInMonth(y, m)

Date(y, m, d) == [year |-> y, month |-> m, day |-> d]

\* d + timedelta(days=1)
NextDay(d) ==
    IF d.day < DaysInMonth(d.year, d.month) THEN Date(d.year, d.month, d.day + 1)
    ELSE IF d.month < 12 THEN Date(d.year, d.month + 1, 1)
    ELSE Date(d.year + 1, 1, 1)

\* ------------------------------------------------------------ parser
\* re.search(r"\b(19|20)\d{2}\b", text) matches at position i
YearMatchAt(text, i) ==
    /\ i + 3 <= Len(text)
    /\ \/ text[i] = "1" /\ text[i + 1] = "9"
       \/ text[i] = "2" /\ text[i + 1] = "0"
    /\ text[i + 2] \in Digits
    /\ text[i + 3] \in Digits
    /\ (i = 1 \/ ~IsWordChar(text[i - 1]))
    /\ (i + 3 = Len(text) \/ ~IsWordChar(text[i + 4]))

\* ICSParser._extract_year; None is 0 (the caller only tests truthiness)
ExtractYear(text) ==
    LET hits == {i \in 1..Len(text) : YearMatchAt(text, i)}
    IN  IF hits = {} THEN 0
        ELSE ToInt(SubSeq(text, SetMin(hits), SetMin(hits) + 3))

NAME_PREFIX == <<"U", "n", "k", "n", "o", "w", "n", " ",
                 "B", "i", "r", "t", "h", "d", "a", "y", " ", "(">>

NO_UID == <<"n", "o", "-", "u", "i", "d">>

\* _clean_name returning the summary as it came when it is not blank
CleanNameUntrimmed(summary, uid) ==
    IF Strip(summary) = <<>>
    THEN NAME_PREFIX \o Prefix(uid, UidPrefixLen) \o <<")">>
    ELSE summary

\* ICSParser._clean_name
CleanName(summary, uid) ==
    LET name == Strip(summary)
    IN  IF name = <<>>
        THEN NAME_PREFIX \o Prefix(uid, UidPrefixLen) \o <<")">>
        ELSE name

\* isinstance(dtstart, date): datetime is a subclass of date
IsDateInstance(dt) == dt.type \in {"date", "datetime"}

\* the two searches in the opposite order
TextYearSummaryFirst(description, summary) ==
    IF ExtractYear(summary) # 0 THEN ExtractYear(summary)
    ELSE ExtractYear(description)

\* self._extract_year(description) or self._extract_year(summary)
TextYear(description, summary) ==
    IF ExtractYear(description) # 0 THEN ExtractYear(description)
    ELSE ExtractYear(summary)

\* the fallback with the threshold one year later
StartYearInclusive(dtstart, today) ==
    IF dtstart.year <= today - 1 THEN <<dtstart.year, TRUE>>
    ELSE <<SENTINEL_YEAR, FALSE>>

\* the start-date fallback of the waterfall: <<birth_year, has_year>>
StartYear(dtstart, today) ==
    IF dtstart.year < today - 1 THEN <<dtstart.year, TRUE>>
    ELSE <<SENTINEL_YEAR, FALSE>>

\* the waterfall: <<birth_year, has_year>>
RecoverYear(description, summary, dtstart, today) ==
    IF TextYear(description, summary) # 0
    THEN <<TextYear(description, summary), TRUE>>
    ELSE StartYear(dtstart, today)

\* One pass of the loop body of parse over one VEVENT:
\*   [kind |-> "raise"]  an exception leaves parse,
\*   [kind |-> "skip"]   continue,
\*   [kind |-> "entry", entry |-> BirthdayEntry].
ParseEvent(event, today) ==
    LET uid         == Get(event.uid, NO_UID)
        summary     == Get(event.summary, <<>>)
        description == Get(event.description, <<>>)
    IN  IF event.dtstart = <<>> THEN [kind |-> "raise"]
        ELSE LET dtstart == event.dtstart[1]
             IN  IF ~IsDateInstance(dtstart) THEN [kind |-> "skip"]
                 ELSE LET yr == RecoverYear(description, summary, dtstart, today)
                      IN  IF ~ValidDate(yr[1], dtstart.month, dtstart.day)
                          THEN [kind |-> "raise"]
                          ELSE [kind  |-> "entry",
                                entry |-> [name         |-> CleanName(summary, uid),
                                           birth_date   |-> Date(yr[1], dtstart.month, dtstart.day),
                                           original_uid |-> uid,
                                           has_year     |-> yr[2]]]

\* cal.walk("VEVENT")
Walk(components) == SelectSeq(components, LAMBDA c : c.kind = "VEVENT")

\* The loop of parse over events[i..]: acc holds the entries appended so far,
\* src the event each of them was made from.
RECURSIVE ParseLoop(_, _, _, _, _)
ParseLoop(events, i, today, acc, src) ==
    IF i > Len(events) THEN [raised |-> FALSE, entries |-> acc, src |-> src]
    ELSE LET r == ParseEvent(events[i], today)
         IN  CASE r.kind = "raise" -> [raised |-> TRUE, entries |-> <<>>, src |-> <<>>]
               [] r.kind = "skip"  -> ParseLoop(events, i + 1, today, acc, src)
               [] r.kind = "entry" -> ParseLoop(events, i + 1, today,
                                                Append(acc, r.entry),
                                                Append(src, events[i]))

\* ------------------------------------------------------------ generator
BORN == <<"B", "o", "r", "n", ":", " ">>

UNKNOWN == <<"U", "n", "k", "n", "o", "w", "n">>

REMINDER == <<"B", "i", "r", "t", "h", "d", "a", "y", " ",
              "R", "e", "m", "i", "n", "d", "e", "r", ":", " ">>

\* str(uuid.uuid4()): identifiers are fresh within a calendar, and no operation
\* reads their content, so the k-th one generated for a calendar is named by k
Uuid(k) == <<"u", "u", "i", "d", "-">> \o ToStr(k)

\* year_text without the test of has_year
YearTextAlwaysNumber(entry) == ToStr(entry.birth_date.year)

\* year_text = str(entry.birth_date.year) if entry.has_year else "Unknown"
YearText(entry) == IF entry.has_year THEN ToStr(entry.birth_date.year) ELSE UNKNOWN

\* ICSGenerator._create_event
CreateEvent(entry, uid) ==
    [uid         |-> uid,
     summary     |-> entry.name,
     dtstart     |-> entry.birth_date,
     dtend       |-> NextDay(entry.birth_date),
     rrule       |-> "yearly",
     description |-> BORN \o YearText(entry),
     categories  |-> "Birthday",
     alarms      |-> <<[action      |-> "DISPLAY",
                        description |-> REMINDER \o entry.name,
                        trigger     |-> DEFAULT_ALARM_HOURS]>>]

\* the components of self.cal after the loop of build
AddComponents(components, records) ==
    components \o [j \in 1..Len(records) |->
                      CreateEvent(records[j], Uuid(Len(components) + j))]

\* ------------------------------------------------------------ source files
T_Bob == <<" ", "B", "o", "b", " ">>
T_Jo1985 == <<"J", "o", " ", "1", "9", "8", "5">>
T_Blank == <<" ", " ">>
T_Born1990 == <<"B", "o", "r", "n", " ", "1", "9", "9", "0">>
T_Glued == <<"b", "1", "9", "9", "0", " ", "2", "0", "0", "1">>
T_Long == <<"1", "9", "9", "0", "1">>
T_Range == <<"1", "9", "9", "0", "-", "2", "0", "0", "1">>
T_Uid == <<"a", "b", "c", "d", "1", "2", "3", "4", "-", "x", "y", "z">>

Start(type, y, m, d) == [type |-> type, year |-> y, month |-> m, day |-> d]

Component(kind, uid, summary, description, dtstart) ==
    [kind |-> kind, uid |-> uid, summary |-> summary,
     description |-> description, dtstart |-> dtstart]

D_2020 == <<Start("date", 2020, 5, 4)>>

Event(uid, summary, description, dtstart) ==
    Component("VEVENT", uid, summary, description, dtstart)

\* events that differ in their texts
TextCases ==
    {Event(<<T_Uid>>, <<T_Bob>>, <<>>, D_2020),
     Event(<<T_Uid>>, <<T_Bob>>, <<T_Born1990>>, D_2020),
     Event(<<T_Uid>>, <<T_Bob>>, <<T_Range>>, D_2020),
     Event(<<T_Uid>>, <<T_Bob>>, <<T_Glued>>, D_2020),
     Event(<<T_Uid>>, <<T_Jo1985>>, <<>>, D_2020),
     Event(<<T_Uid>>, <<T_Jo1985>>, <<T_Born1990>>, D_2020),
     Event(<<T_Uid>>, <<T_Jo1985>>, <<T_Long>>, D_2020)}

\* events that differ in their start value
StartCases ==
    {Event(<<T_Uid>>, <<T_Bob>>, <<>>, <<Start("date", 2024, 2, 29)>>),
     Event(<<T_Uid>>, <<T_Bob>>, <<T_Born1990>>, <<Start("date", 2024, 2, 29)>>),
     Event(<<T_Uid>>, <<T_Bob>>, <<>>, <<Start("date", 2025, 3, 1)>>),
     Event(<<T_Uid>>, <<T_Bob>>, <<>>, <<Start("datetime", 2020, 5, 4)>>),
     Event(<<T_Uid>>, <<T_Bob>>, <<>>, <<Start("period", 2020, 5, 4)>>),
     Event(<<T_Uid>>, <<T_Bob>>, <<>>, <<>>)}

\* events without a usable summary
NameCases ==
    {Event(<<>>, <<>>, <<>>, D_2020),
     Event(<<T_Uid>>, <<T_Blank>>, <<>>, D_2020)}

\* components walk("VEVENT") does not return
OtherCases == {Component("VTODO", <<T_Uid>>, <<T_Bob>>, <<>>, <<>>)}

SourceComponents == TextCases \cup StartCases \cup NameCases \cup OtherCases

RECURSIVE SeqsUpTo(_, _)
SeqsUpTo(S, n) ==
    IF n = 0 THEN {<<>>}
    ELSE LET shorter == SeqsUpTo(S, n - 1)
         IN  shorter \cup {Append(q, x) : q \in shorter, x \in S}

\* date.today().year
Todays == {2025, 2026}

\* ------------------------------------------------------------ state
VARIABLES
    today,         \* date.today().year of the run
    readable,      \* whether data/input.ics opens, decodes and parses
    input,         \* the components of data/input.ics
    parse_state,   \* "none", "returned" or "raised": the last call of parse
    entries,       \* the list parse returned (birthday_data)
    entry_src,     \* for each entry, the event it was made from
    gen,           \* whether an ICSGenerator has been constructed
    cal,           \* the components of the generator's self.cal
    builds,        \* build calls made on that generator
    built,         \* the components of the calendar the last build returned
    build_arg,     \* the records passed to the last build
    output_file,   \* data/output.ics: <<>> or <<components>>
    written_from,  \* the records whose calendar was written
    fed,           \* how many times an output became the input
    origin         \* the records the input was built from, when fed

vars == <<today, readable, input, parse_state, entries, entry_src, gen, cal,
          builds, built, build_arg, output_file, written_from, fed, origin>>

Init ==
    /\ today \in Todays
    /\ \/ readable = TRUE /\ input \in SeqsUpTo(SourceComponents, MaxEvents)
       \/ readable = FALSE /\ input = <<>>
    /\ parse_state = "none"
    /\ entries = <<>>
    /\ entry_src = <<>>
    /\ gen = FALSE
    /\ cal = <<>>
    /\ builds = 0
    /\ built = <<>>
    /\ build_arg = <<>>
    /\ output_file = <<>>
    /\ written_from = <<>>
    /\ fed = 0
    /\ origin = <<>>

\* ICSParser.parse
ParseResult ==
    IF readable THEN ParseLoop(Walk(input), 1, today, <<>>, <<>>)
    ELSE [raised |-> FALSE, entries |-> <<>>, src |-> <<>>]

Parse ==
    /\ parse_state' = IF ParseResult.raised THEN "raised" ELSE "returned"
    /\ entries' = ParseResult.entries
    /\ entry_src' = ParseResult.src
    /\ UNCHANGED <<today, readable, input, gen, cal, builds, built, build_arg,
                   output_file, written_from, fed, origin>>

\* ICSGenerator.__init__
NewGenerator ==
    /\ gen' = TRUE
    /\ cal' = <<>>
    /\ builds' = 0
    /\ UNCHANGED <<today, readable, input, parse_state, entries, entry_src,
                   built, build_arg, output_file, written_from, fed, origin>>

\* ICSGenerator.build(birthday_data)
Build ==
    /\ gen
    /\ parse_state = "returned"
    /\ builds < MaxBuilds
    /\ cal' = AddComponents(cal, entries)
    /\ built' = cal'
    /\ build_arg' = entries
    /\ builds' = builds + 1
    /\ UNCHANGED <<today, readable, input, parse_state, entries, entry_src, gen,
                   output_file, written_from, fed, origin>>

\* main: the calendar of its one build call, on non-empty data, is written
WriteOutput ==
    /\ builds = 1
    /\ build_arg # <<>>
    /\ output_file' = <<built>>
    /\ written_from' = build_arg
    /\ UNCHANGED <<today, readable, input, parse_state, entries, entry_src, gen,
                   cal, builds, built, build_arg, fed, origin>>

\* an emitted event as the component a later run reads
AsComponent(ev) ==
    Component("VEVENT", <<ev.uid>>, <<ev.summary>>, <<ev.description>>,
              <<Start("date", ev.dtstart.year, ev.dtstart.month, ev.dtstart.day)>>)

\* data/output.ics becomes data/input.ics of a new run of main
FeedBack ==
    /\ output_file # <<>>
    /\ fed < MaxFeedBacks
    /\ input' = [i \in 1..Len(output_file[1]) |-> AsComponent(output_file[1][i])]
    /\ readable' = TRUE
    /\ origin' = written_from
    /\ fed' = fed + 1
    /\ parse_state' = "none"
    /\ entries' = <<>>
    /\ entry_src' = <<>>
    /\ gen' = FALSE
    /\ cal' = <<>>
    /\ builds' = 0
    /\ built' = <<>>
    /\ build_arg' = <<>>
    /\ output_file' = <<>>
    /\ written_from' = <<>>
    /\ UNCHANGED today

Next == Parse \/ NewGenerator \/ Build \/ WriteOutput \/ FeedBack

Spec == Init /\ [][Next]_vars

\* ------------------------------------------------------------ properties
Contains(t, sub) ==
    \E i \in 0..(Len(t) - Len(sub)) : SubSeq(t, i + 1, i + Len(sub)) = sub

SrcSummary(i) == Get(entry_src[i].summary, <<>>)
SrcDescription(i) == Get(entry_src[i].description, <<>>)
SrcStart(i) == entry_src[i].dtstart[1]

\* the four characters at i are 19dd or 20dd
YearShapeAt(t, i) ==
    /\ i >= 1
    /\ i + 3 <= Len(t)
    /\ <<t[i], t[i + 1]>> \in {<<"1", "9">>, <<"2", "0">>}
    /\ t[i + 2] \in Digits
    /\ t[i + 3] \in Digits

YearValueAt(t, i) ==
    1000 * DigitVal(t[i]) + 100 * DigitVal(t[i + 1])
        + 10 * DigitVal(t[i + 2]) + DigitVal(t[i + 3])

\* a year token that is not embedded in a longer digit run
LooseTokenAt(t, i) ==
    /\ YearShapeAt(t, i)
    /\ (i > 1 => t[i - 1] \notin Digits)
    /\ (i + 3 < Len(t) => t[i + 4] \notin Digits)

\* a year token with no letter, digit or underscore on either side
BoundedTokenAt(t, i) ==
    /\ YearShapeAt(t, i)
    /\ (i > 1 => t[i - 1] \notin (Letters \cup Digits \cup {"_"}))
    /\ (i + 3 < Len(t) => t[i + 4] \notin (Letters \cup Digits \cup {"_"}))

HasLooseToken(t) == \E i \in 1..Len(t) : LooseTokenAt(t, i)
HasBoundedToken(t) == \E i \in 1..Len(t) : BoundedTokenAt(t, i)

\* y is the value of the leftmost loose / bounded token of t
IsLeftmostLoose(t, y) ==
    \E i \in 1..Len(t) :
        /\ LooseTokenAt(t, i)
        /\ \A j \in 1..(i - 1) : ~LooseTokenAt(t, j)
        /\ y = YearValueAt(t, i)

IsLeftmostBounded(t, y) ==
    \E i \in 1..Len(t) :
        /\ BoundedTokenAt(t, i)
        /\ \A j \in 1..(i - 1) : ~BoundedTokenAt(t, j)
        /\ y = YearValueAt(t, i)

\* C1: every record parse produces has has_year = FALSE exactly when its
\* birth_date.year is SENTINEL_YEAR.
C1_SentinelIffNoYear ==
    \A i \in 1..Len(entries) :
        (entries[i].has_year = FALSE) <=> (entries[i].birth_date.year = SENTINEL_YEAR)

\* the recovered year and the start's month and day make a date
Constructible(e) ==
    LET st == e.dtstart[1]
        yr == RecoverYear(Get(e.description, <<>>), Get(e.summary, <<>>), st, today)
    IN  ValidDate(yr[1], st.month, st.day)

AllStartsArePureDates ==
    \A k \in 1..Len(input) :
        input[k].kind = "VEVENT" =>
            input[k].dtstart # <<>> /\ input[k].dtstart[1].type = "date"

\* C2: when every event starts on a pure date, an event whose recovered year
\* and month/day make no valid date is skipped alone: parse returns, and its
\* records are those of the other events, in order.
C2_ConstructionFailureSkipsRecord ==
    (parse_state # "none" /\ readable /\ AllStartsArePureDates) =>
        /\ parse_state = "returned"
        /\ entry_src = SelectSeq(Walk(input), Constructible)

\* C3: no record is produced from an event whose start value is a date-time.
C3_DateTimeStartSkipped ==
    \A i \in 1..Len(entries) : SrcStart(i).type # "datetime"

EveryStartIsUsable ==
    \A k \in 1..Len(input) :
        (input[k].kind = "VEVENT" /\ input[k].dtstart # <<>>) =>
            input[k].dtstart[1].type = "date" /\ Constructible(input[k])

\* C4: an event with no start date never aborts the batch: when every event
\* that has a start is admissible, parse returns exactly one record per event
\* that has a start, in input order.
C4_MalformedNeverAborts ==
    (parse_state # "none" /\ readable /\ EveryStartIsUsable) =>
        /\ parse_state = "returned"
        /\ entry_src = SelectSeq(Walk(input), LAMBDA e : e.dtstart # <<>>)

\* C5 as stated: the recovered year is the leftmost 19dd/20dd token of the
\* description that is not embedded in a longer digit run, else the leftmost
\* such token of the summary; has_year is true in both cases.
C5_LooseTokenPriority ==
    \A i \in 1..Len(entries) :
        /\ HasLooseToken(SrcDescription(i)) =>
              /\ IsLeftmostLoose(SrcDescription(i), entries[i].birth_date.year)
              /\ entries[i].has_year
        /\ (~HasLooseToken(SrcDescription(i)) /\ HasLooseToken(SrcSummary(i))) =>
              /\ IsLeftmostLoose(SrcSummary(i), entries[i].birth_date.year)
              /\ entries[i].has_year

\* C5 amended: the recovered year is the leftmost 19dd/20dd token of the
\* description that has no letter, digit or underscore on either side, else
\* the leftmost such token of the summary; has_year is true in both cases,
\* whatever the start date's year.
C5_BoundedTokenPriority ==
    \A i \in 1..Len(entries) :
        /\ HasBoundedToken(SrcDescription(i)) =>
              /\ IsLeftmostBounded(SrcDescription(i), entries[i].birth_date.year)
              /\ entries[i].has_year
        /\ (~HasBoundedToken(SrcDescription(i)) /\ HasBoundedToken(SrcSummary(i))) =>
              /\ IsLeftmostBounded(SrcSummary(i), entries[i].birth_date.year)
              /\ entries[i].has_year

\* a record from a description with two tokens and a record whose year came
\* from the summary, both with a start year that differs from the record's
C5_Witness ==
    /\ parse_state = "returned"
    /\ \E i \in 1..Len(entries) :
          /\ \E a, b \in 1..Len(SrcDescription(i)) :
                a < b /\ BoundedTokenAt(SrcDescription(i), a)
                      /\ BoundedTokenAt(SrcDescription(i), b)
          /\ entries[i].birth_date.year # SrcStart(i).year
    /\ \E i \in 1..Len(entries) :
          /\ ~HasBoundedToken(SrcDescription(i))
          /\ HasBoundedToken(SrcSummary(i))
          /\ entries[i].birth_date.year # SrcStart(i).year

\* C6: a record with no year token in description or summary has the start
\* date's year and has_year = TRUE when that year is below today's year - 1,
\* and SENTINEL_YEAR and has_year = FALSE otherwise.
C6_StartYearFallback ==
    \A i \in 1..Len(entries) :
        (~HasBoundedToken(SrcDescription(i)) /\ ~HasBoundedToken(SrcSummary(i))) =>
            IF SrcStart(i).year < today - 1
            THEN entries[i].birth_date.year = SrcStart(i).year /\ entries[i].has_year
            ELSE entries[i].birth_date.year = SENTINEL_YEAR /\ ~entries[i].has_year

\* a token-free record whose start year is exactly today's year - 1, and one
\* whose start year is below it
C6_Witness ==
    /\ parse_state = "returned"
    /\ \E i \in 1..Len(entries) :
          /\ ~HasBoundedToken(SrcDescription(i)) /\ ~HasBoundedToken(SrcSummary(i))
          /\ SrcStart(i).year = today - 1
          /\ ~entries[i].has_year
    /\ \E i \in 1..Len(entries) :
          /\ ~HasBoundedToken(SrcDescription(i)) /\ ~HasBoundedToken(SrcSummary(i))
          /\ SrcStart(i).year < today - 1
          /\ entries[i].has_year

\* C7: the calendar a build call returns holds exactly one event, with one
\* reminder, per record passed to that call, in order, and nothing else.
C7_BuildIsPure ==
    builds > 0 =>
        /\ Len(built) = Len(build_arg)
        /\ \A j \in 1..Len(built) :
              /\ built[j].summary = build_arg[j].name
              /\ built[j].dtstart = build_arg[j].birth_date
              /\ Len(built[j].alarms) = 1

\* the event the last build call made from its j-th record
LastBuilt(j) == built[Len(built) - Len(build_arg) + j]

\* t shows the number y in decimal
ShowsDecimal(t, y) ==
    \E a, b \in 1..Len(t) :
        /\ a <= b
        /\ \A k \in a..b : t[k] \in Digits
        /\ t[a] # "0"
        /\ ToInt(SubSeq(t, a, b)) = y

\* C8: the description of the event built from a record with has_year shows
\* the birth year in decimal; built from a record without, it contains
\* "Unknown" and not the digits of the sentinel year.
C8_DescriptionShowsYear ==
    builds > 0 =>
        \A j \in 1..Len(build_arg) :
            IF build_arg[j].has_year
            THEN ShowsDecimal(LastBuilt(j).description, build_arg[j].birth_date.year)
            ELSE /\ Contains(LastBuilt(j).description, <<"U", "n", "k", "n", "o", "w", "n">>)
                 /\ ~Contains(LastBuilt(j).description, <<"1", "6", "0", "4">>)

\* a build of a record with a known year and of one with the sentinel year
C8_Witness ==
    /\ builds > 0
    /\ \E j \in 1..Len(build_arg) : build_arg[j].has_year
    /\ \E j \in 1..Len(build_arg) :
          ~build_arg[j].has_year /\ build_arg[j].birth_date.year = SENTINEL_YEAR

\* name is s without its leading and trailing whitespace
IsTrimmed(name, s) ==
    \E a, b \in 1..Len(s) :
        /\ a <= b
        /\ name = SubSeq(s, a, b)
        /\ s[a] \notin Whitespace
        /\ s[b] \notin Whitespace
        /\ \A k \in (1..(a - 1)) \cup ((b + 1)..Len(s)) : s[k] \in Whitespace

FallbackName(uid) ==
    NAME_PREFIX \o [k \in 1..(IF Len(uid) < 8 THEN Len(uid) ELSE 8) |-> uid[k]] \o <<")">>

\* C9: every record's name is non-empty: the trimmed summary when that is
\* non-empty, else "Unknown Birthday (" + the identifier's first 8 characters
\* + ")", the identifier being "no-uid" when the event has none.
C9_NameNeverEmpty ==
    \A i \in 1..Len(entries) :
        /\ entries[i].name # <<>>
        /\ IF \E k \in 1..Len(SrcSummary(i)) : SrcSummary(i)[k] \notin Whitespace
           THEN /\ IsTrimmed(entries[i].name, SrcSummary(i))
                /\ (/\ SrcSummary(i)[1] \notin Whitespace
                    /\ SrcSummary(i)[Len(SrcSummary(i))] \notin Whitespace)
                       => entries[i].name = SrcSummary(i)
           ELSE entries[i].name =
                    FallbackName(IF entry_src[i].uid = <<>>
                                 THEN <<"n", "o", "-", "u", "i", "d">>
                                 ELSE entry_src[i].uid[1])

\* a record named by trimming, and a fallback name for an event that has no
\* identifier
C9_Witness ==
    /\ parse_state = "returned"
    /\ \E i \in 1..Len(entries) :
          /\ SrcSummary(i) # <<>>
          /\ SrcSummary(i)[1] \in Whitespace
          /\ entries[i].name # SrcSummary(i)
          /\ Len(entries[i].name) < Len(SrcSummary(i))
    /\ \E i \in 1..Len(entries) :
          entry_src[i].uid = <<>> /\ SrcSummary(i) = <<>>

\* C10: parsing the events build emitted for some records gives records with
\* the same name, month, day, has_year and birth year.
C10_RoundTrip ==
    (fed > 0 /\ parse_state # "none") =>
        /\ parse_state = "returned"
        /\ Len(entries) = Len(origin)
        /\ \A i \in 1..Len(entries) :
              /\ entries[i].name = origin[i].name
              /\ entries[i].birth_date.month = origin[i].birth_date.month
              /\ entries[i].birth_date.day = origin[i].birth_date.day
              /\ entries[i].has_year = origin[i].has_year
              /\ entries[i].birth_date.year = origin[i].birth_date.year

====
